---- MODULE Spec2Model ----
(***************************************************************************)
(* elm-storybook: the ElmStorybook story picker (storybook, storyOf,       *)
(* statelessStoryOf) and the loadElmStories registration adapter, in its   *)
(* TypeScript and its JavaScript variant.                                  *)
(***************************************************************************)
EXTENDS Integers, Sequences, FiniteSets, TLC

VARIABLES
    stories,      \* the list handed to `storybook`
    flag,         \* the String flag the host starts the program with
    pc,           \* "boot" before the runtime has called init, then "running"
    pmodel,       \* the program's Model record (currentStoryName, currentStory, customModel)
    cmd,          \* the Cmd returned by the last init/update call
    html,         \* the Html of the last view call (<<>> before the first)
    sub,          \* the Sub of the last subscriptions call (<<>> before the first)
    msgs,         \* the messages dispatched so far
    cmds,         \* the Cmd returned by each update so far
    variant,      \* which loadElmStories is in use: "tsx" or "js"
    elmApp,       \* loadElmStories' elmApp argument
    storyNames,   \* loadElmStories' storyNames argument
    ports,        \* loadElmStories' ports argument
    lpc,          \* position in loadElmStories: "start", "loop", "done", "threw"
    entries,      \* what stories.add has registered with the explorer, in order
    rendered      \* the element the last activated render callback returned (<<>> before)

pvars == <<stories, flag, pc, pmodel, cmd, html, sub, msgs, cmds>>
lvars == <<variant, elmApp, storyNames, ports, lpc, entries, rendered>>
vars == <<pvars, lvars>>

-----------------------------------------------------------------------------
(* Bounds *)

MaxStories == 2      \* longest story list
MaxMsgs == 3         \* most messages dispatched to one program
MaxCount == 2        \* the example stories count 0..MaxCount, then wrap
MaxNames == 3        \* longest storyNames array

-----------------------------------------------------------------------------
(* Elm values *)

Nothing == <<>>
Just(x) == <<x>>

CmdNone == "Cmd.none"
SubNone == "Sub.none"

text(s) == <<"text", s>>

\* type StatelessModel = NoModel
NoModel == <<"NoModel">>

\* The customModel of the stateful example stories: a counter.
Count(n) == <<"Count", n>>
CountModels == {Count(n) : n \in 0..MaxCount}

\* customMsg of the example stories
Msgs == {"Inc", "Reset"}

StoryNames == {"h1", "h2", "dup"}
Flags == StoryNames \cup {"", "zz"}

-----------------------------------------------------------------------------
(* Story constructors *)

storyOf(name, config, view) ==
    [name |-> name, config |-> config, view |-> view]

\* statelessStoryOf whose update asks for a command on every message
statelessStoryOf_Chatty(name, view) ==
    [ name |-> name
    , config |->
        [ init |-> <<NoModel, CmdNone>>
        , update |-> [msg \in Msgs, model \in {NoModel} |-> <<model, "cmdLog">>]
        , subscriptions |-> [model \in {NoModel} |-> SubNone] ]
    , view |-> [m \in {NoModel} |-> view] ]

statelessStoryOf(name, view) ==
    LET statelessInit == NoModel
        statelessUpdate == [msg \in Msgs, model \in {NoModel} |-> <<model, CmdNone>>]
        statelessSubscriptions == [model \in {NoModel} |-> SubNone]
        statelessConfig ==
            [ init |-> <<statelessInit, CmdNone>>
            , update |-> statelessUpdate
            , subscriptions |-> statelessSubscriptions ]
    IN  [ name |-> name
        , config |-> statelessConfig
        , view |-> [m \in {NoModel} |-> view] ]

-----------------------------------------------------------------------------
(* Example stories: the inputs a storybook author supplies *)

\* config = { update = update, init = ( initModel, Cmd.none ), subscriptions = ... }
counterConfig ==
    [ init |-> <<Count(0), CmdNone>>
    , update |->
        [msg \in Msgs, model \in CountModels |->
            IF msg = "Inc"
            THEN <<Count((model[2] + 1) % (MaxCount + 1)), "cmdLog">>
            ELSE <<Count(0), CmdNone>>]
    , subscriptions |->
        [model \in CountModels |-> IF model[2] = 0 THEN SubNone ELSE "subTick"] ]

\* A config with an initial command, whose update differs from counterConfig's.
loaderConfig ==
    [ init |-> <<Count(1), "cmdLoad">>
    , update |->
        [msg \in Msgs, model \in CountModels |->
            IF msg = "Inc"
            THEN <<model, "cmdPing">>
            ELSE <<Count(MaxCount), CmdNone>>]
    , subscriptions |-> [model \in CountModels |-> SubNone] ]

viewDiv == [model \in CountModels |-> <<"div", model[2]>>]
viewSpan == [model \in CountModels |-> <<"span", model[2]>>]

\* Precomputed Html trees for stateless stories
Trees == {<<"h1", "This is a h1">>, <<"h2", "This is a h2">>}

StatefulPool ==
    { storyOf("h1", counterConfig, viewDiv)
    , storyOf("h2", loaderConfig, viewSpan)
    , storyOf("dup", counterConfig, viewDiv)
    , storyOf("dup", loaderConfig, viewSpan) }

StatelessPool ==
    { statelessStoryOf(n, v) : n \in {"h1", "dup"}, v \in Trees }

SeqsUpTo(S, n) == UNION {[1..k -> S] : k \in 0..n}

\* All stories of one storybook share customModel and customMsg, so a list is
\* all stateful or all stateless.
StoryLists == SeqsUpTo(StatefulPool, MaxStories) \cup SeqsUpTo(StatelessPool, MaxStories)

-----------------------------------------------------------------------------
(* Dict *)

Dict_empty == [k \in {} |-> k]

Dict_insert(key, value, dict) ==
    [k \in (DOMAIN dict) \cup {key} |-> IF k = key THEN value ELSE dict[k]]

\* Dict.fromList folds the pairs from the left, inserting each.
RECURSIVE Dict_foldl(_, _)
Dict_foldl(pairs, dict) ==
    IF pairs = <<>> THEN dict
    ELSE Dict_foldl(Tail(pairs), Dict_insert(Head(pairs)[1], Head(pairs)[2], dict))

Dict_fromList(pairs) == Dict_foldl(pairs, Dict_empty)

Dict_get(key, dict) ==
    IF key \in DOMAIN dict THEN Just(dict[key]) ELSE Nothing

-----------------------------------------------------------------------------
(* storybook stories = Browser.element { init, view, update, subscriptions } *)

storiesAsTuples ==
    [i \in 1..Len(stories) |-> <<stories[i].name, stories[i]>>]

\* storyDict built from the tuples in reverse order, so the first story of a name wins
storyDict_FirstWins ==
    Dict_fromList([i \in 1..Len(stories) |-> storiesAsTuples[Len(stories) + 1 - i]])

storyDict == Dict_fromList(storiesAsTuples)

\* storybookInit that resolves the story but never runs its init
storybookInit_NoModel(storyName) ==
    << [ currentStoryName |-> storyName
       , currentStory |-> Dict_get(storyName, storyDict)
       , customModel |-> Nothing ]
     , CmdNone >>

\* storybookInit that runs the story's init but drops its command
storybookInit_DropsCmd(storyName) ==
    LET currentStory == Dict_get(storyName, storyDict)
    IN  << [ currentStoryName |-> storyName
           , currentStory |-> currentStory
           , customModel |->
                IF currentStory # Nothing
                THEN Just(currentStory[1].config.init[1])
                ELSE Nothing ]
         , CmdNone >>

storybookInit(storyName) ==
    LET currentStory == Dict_get(storyName, storyDict)
        initPair ==
            IF currentStory # Nothing
            THEN <<Just(currentStory[1].config.init[1]), currentStory[1].config.init[2]>>
            ELSE <<Nothing, CmdNone>>
    IN  << [ currentStoryName |-> storyName
           , currentStory |-> currentStory
           , customModel |-> initPair[1] ]
         , initPair[2] >>

\* storybookView whose placeholder leaves the name out
storybookView_NoName(model) ==
    IF model.currentStory # Nothing /\ model.customModel # Nothing
    THEN model.currentStory[1].view[model.customModel[1]]
    ELSE text("Story not found")

storybookView(model) ==
    IF model.currentStory # Nothing /\ model.customModel # Nothing
    THEN model.currentStory[1].view[model.customModel[1]]
    ELSE text("Story " \o model.currentStoryName \o " not found")

\* storybookUpdate that forwards the commands but keeps the old customModel
storybookUpdate_StaleModel(msg, model) ==
    IF model.currentStory # Nothing /\ model.customModel # Nothing
    THEN <<model, model.currentStory[1].config.update[msg, model.customModel[1]][2]>>
    ELSE <<model, CmdNone>>

\* storybookUpdate that rebuilds the record and leaves currentStory out
storybookUpdate_ClearsStory(msg, model) ==
    LET pair ==
            IF model.currentStory # Nothing /\ model.customModel # Nothing
            THEN LET r == model.currentStory[1].config.update[msg, model.customModel[1]]
                 IN  <<Just(r[1]), r[2]>>
            ELSE <<model.customModel, CmdNone>>
    IN  << [ currentStoryName |-> model.currentStoryName
           , currentStory |-> Nothing
           , customModel |-> pair[1] ]
         , pair[2] >>

\* storybookUpdate whose fallthrough branch falls back to the first story of the list
storybookUpdate_Fallback(msg, model) ==
    IF model.currentStory # Nothing /\ model.customModel # Nothing
    THEN LET r == model.currentStory[1].config.update[msg, model.customModel[1]]
         IN  << [model EXCEPT !.customModel = Just(r[1])], r[2] >>
    ELSE IF stories # <<>>
         THEN << [model EXCEPT !.currentStory = Just(stories[1]),
                               !.customModel = Just(stories[1].config.init[1])],
                 stories[1].config.init[2] >>
         ELSE <<model, CmdNone>>

storybookUpdate(msg, model) ==
    LET pair ==
            IF model.currentStory # Nothing /\ model.customModel # Nothing
            THEN LET r == model.currentStory[1].config.update[msg, model.customModel[1]]
                 IN  <<Just(r[1]), r[2]>>
            ELSE <<model.customModel, CmdNone>>
    IN  << [model EXCEPT !.customModel = pair[1]], pair[2] >>

storybookSubs(model) ==
    IF model.currentStory # Nothing /\ model.customModel # Nothing
    THEN model.currentStory[1].config.subscriptions[model.customModel[1]]
    ELSE SubNone

-----------------------------------------------------------------------------
(* loadElmStories *)

\* JavaScript values, tagged by their type
Undefined == <<"undefined">>
Object(fields) == <<"object", fields>>
Function(name) == <<"function", name>>

\* JavaScript truthiness of the values elmApp.Elm.Main takes here
Truthy(v) == v # Undefined

\* The compiled Main module of the Elm file
MainProgram == Object([init |-> Function("Main.init")])

\* require("./TextStories.elm"), with and without the Main module
ElmApps == {Object([Elm |-> Object([Main |-> m])]) : m \in {MainProgram, Undefined}}

\* elmApp.Elm.Main
ElmMain(app) == app[2].Elm[2].Main

PortsArgs == {Undefined, Function("ports")}

Variants == {"tsx", "js"}

\* The arrow function handed to stories.add closes over storyName (a fresh
\* binding per iteration of for...of with const), elmApp and ports.
renderClosure(storyName) ==
    [storyName |-> storyName, elmApp |-> elmApp, ports |-> ports]

\* <ElmComponent src={elmApp.Elm.Main} flags={storyName} ports={ports} />
renderTsx(closure) ==
    [src |-> ElmMain(closure.elmApp), flags |-> closure.storyName, ports |-> closure.ports]

\* React.createElement(ElmComponent, { src: elmApp, flags: storyName, ports })
renderJs(closure) ==
    [src |-> closure.elmApp, flags |-> closure.storyName, ports |-> closure.ports]

\* stories.add(storyName, render)
storiesAdd(registered, storyName, render) ==
    Append(registered, [name |-> storyName, render |-> render])

LoadInit ==
    /\ variant \in Variants
    /\ elmApp \in ElmApps
    /\ storyNames \in SeqsUpTo(StoryNames, MaxNames)
    /\ ports \in PortsArgs
    /\ lpc = "start"
    /\ entries = <<>>
    /\ rendered = <<>>

\* The TypeScript variant: the entry-point check, then storiesOf(name, module).
LoadStartTsx ==
    /\ lpc = "start"
    /\ variant = "tsx"
    /\ lpc' = IF ~Truthy(ElmMain(elmApp)) THEN "threw" ELSE "loop"
    /\ UNCHANGED <<variant, elmApp, storyNames, ports, entries, rendered, pvars>>

\* The JavaScript variant goes straight to storiesOf(name, module).
LoadStartJs ==
    /\ lpc = "start"
    /\ variant = "js"
    /\ lpc' = "loop"
    /\ UNCHANGED <<variant, elmApp, storyNames, ports, entries, rendered, pvars>>

\* One iteration of for (const storyName of storyNames)
LoadAdd ==
    /\ lpc = "loop"
    /\ Len(entries) < Len(storyNames)
    /\ LET storyName == storyNames[Len(entries) + 1]
       IN  entries' = storiesAdd(entries, storyName, renderClosure(storyName))
    /\ UNCHANGED <<variant, elmApp, storyNames, ports, lpc, rendered, pvars>>

LoadReturn ==
    /\ lpc = "loop"
    /\ Len(entries) >= Len(storyNames)
    /\ lpc' = "done"
    /\ UNCHANGED <<variant, elmApp, storyNames, ports, entries, rendered, pvars>>

\* The explorer activates a registered entry: it calls the entry's render callback.
Activate ==
    /\ lpc = "done"
    /\ \E k \in 1..Len(entries) :
         rendered' =
            [ entry |-> k
            , element |-> IF variant = "tsx"
                          THEN renderTsx(entries[k].render)
                          ELSE renderJs(entries[k].render) ]
    /\ UNCHANGED <<variant, elmApp, storyNames, ports, lpc, entries, pvars>>

-----------------------------------------------------------------------------
(* The Elm runtime driving the program *)

\* No program started: the state of the picker while loadElmStories runs.
PickerIdle ==
    /\ stories = <<>>
    /\ flag = ""
    /\ pc = "boot"
    /\ pmodel = Nothing
    /\ cmd = CmdNone
    /\ html = <<>>
    /\ sub = <<>>
    /\ msgs = <<>>
    /\ cmds = <<>>

\* loadElmStories not called: the state of the adapter while one program runs.
LoaderIdle ==
    /\ variant = "tsx"
    /\ elmApp = Object([Elm |-> Object([Main |-> MainProgram])])
    /\ storyNames = <<>>
    /\ ports = Undefined
    /\ lpc = "start"
    /\ entries = <<>>
    /\ rendered = <<>>

PickerInit ==
    /\ stories \in StoryLists
    /\ flag \in Flags
    /\ pc = "boot"
    /\ pmodel = Nothing
    /\ cmd = CmdNone
    /\ html = <<>>
    /\ sub = <<>>
    /\ msgs = <<>>
    /\ cmds = <<>>

RunInit ==
    /\ pc = "boot"
    /\ pmodel' = storybookInit(flag)[1]
    /\ cmd' = storybookInit(flag)[2]
    /\ pc' = "running"
    /\ UNCHANGED <<stories, flag, html, sub, msgs, cmds, lvars>>

RunUpdate ==
    /\ pc = "running"
    /\ Len(msgs) < MaxMsgs
    /\ \E msg \in Msgs :
         /\ pmodel' = storybookUpdate(msg, pmodel)[1]
         /\ cmd' = storybookUpdate(msg, pmodel)[2]
         /\ msgs' = Append(msgs, msg)
         /\ cmds' = Append(cmds, storybookUpdate(msg, pmodel)[2])
    /\ UNCHANGED <<stories, flag, pc, html, sub, lvars>>

RunView ==
    /\ pc = "running"
    /\ html' = storybookView(pmodel)
    /\ UNCHANGED <<stories, flag, pc, pmodel, cmd, sub, msgs, cmds, lvars>>

RunSubs ==
    /\ pc = "running"
    /\ sub' = storybookSubs(pmodel)
    /\ UNCHANGED <<stories, flag, pc, pmodel, cmd, html, msgs, cmds, lvars>>

Init == PickerInit /\ LoaderIdle

Next ==
    \/ RunInit
    \/ RunUpdate
    \/ RunView
    \/ RunSubs

\* One ElmStorybook program from start
Spec == Init /\ [][Next]_vars

InitLoad == LoadInit /\ PickerIdle

NextLoad ==
    \/ LoadStartTsx
    \/ LoadStartJs
    \/ LoadAdd
    \/ LoadReturn
    \/ Activate

\* One call of loadElmStories, then the explorer activating entries
SpecLoad == InitLoad /\ [][NextLoad]_vars

-----------------------------------------------------------------------------
(* Properties of the story picker, checked under Spec *)

Resolved == pmodel.currentStory # Nothing

\* The indices of the stories named by the flag
Named == {i \in 1..Len(stories) : stories[i].name = flag}

Max(S) == CHOOSE x \in S : \A y \in S : y <= x

\* The story's own update run standalone over a message sequence from a start
\* model: <<final model, the Cmd of each step>>
RECURSIVE RunDirect(_, _, _)
RunDirect(story, start, sent) ==
    IF sent = <<>> THEN <<start, <<>>>>
    ELSE LET n == Len(sent)
             before == RunDirect(story, start, SubSeq(sent, 1, n - 1))
             step == story.config.update[sent[n], before[1]]
         IN  <<step[1], Append(before[2], step[2])>>

\* C1: after init and after any updates, currentStory and customModel are both
\* present or both absent.
C1_BothOrNeither ==
    pc = "running" =>
        ((pmodel.currentStory = Nothing) <=> (pmodel.customModel = Nothing))

C1_Witness ==
    /\ pc = "running"
    /\ Len(msgs) >= 2
    /\ pmodel.currentStory # Nothing
    /\ pmodel.customModel # Nothing

\* C2: for a resolved picker the customModel after any message sequence is the
\* one the story's own update reaches from the story's init model, and the Cmd
\* of each step is the one the story's update returned.
C2_Delegation ==
    (pc = "running" /\ Resolved) =>
        LET story == pmodel.currentStory[1]
            direct == RunDirect(story, story.config.init[1], msgs)
        IN  /\ pmodel.customModel = Just(direct[1])
            /\ cmds = direct[2]

C2_Witness ==
    /\ pc = "running"
    /\ Resolved
    /\ Len(msgs) >= 2
    /\ pmodel.customModel # Just(pmodel.currentStory[1].config.init[1])
    /\ \E k \in 1..Len(cmds) : cmds[k] # CmdNone

\* C3: once the program runs, currentStoryName is the flag, and no step changes
\* currentStoryName or currentStory.
C3_StoryFixed ==
    /\ [](pc = "running" => pmodel.currentStoryName = flag)
    /\ [][pc = "running" =>
            /\ pmodel'.currentStoryName = pmodel.currentStoryName
            /\ pmodel'.currentStory = pmodel.currentStory]_vars

C3_Witness ==
    /\ pc = "running"
    /\ Resolved
    /\ msgs # <<>>
    /\ pmodel.customModel # Just(pmodel.currentStory[1].config.init[1])
    /\ pmodel.currentStoryName = "dup"

\* C4: a flag that names no story of the list gives the unresolved state with
\* no command, and the view is the text "Story <flag> not found".
C4_NotFound ==
    (pc = "running" /\ \A i \in 1..Len(stories) : stories[i].name # flag) =>
        /\ pmodel.currentStory = Nothing
        /\ pmodel.customModel = Nothing
        /\ (msgs = <<>> => cmd = CmdNone)
        /\ storybookView(pmodel) = <<"text", "Story " \o flag \o " not found">>
        /\ (html # <<>> => html = <<"text", "Story " \o flag \o " not found">>)

C4_Witness ==
    /\ pc = "running"
    /\ stories # <<>>
    /\ flag = ""
    /\ html = <<"text", "Story  not found">>

\* C5: an update of an unresolved picker leaves the whole model as it was,
\* returns no command, and leaves the view output as it was.
C5_UnresolvedFrame ==
    [][(pc = "running" /\ ~Resolved /\ msgs' # msgs) =>
            /\ pmodel' = pmodel
            /\ cmd' = CmdNone
            /\ cmds'[Len(cmds')] = CmdNone
            /\ storybookView(pmodel') = storybookView(pmodel)]_vars

C5_Witness ==
    /\ pc = "running"
    /\ ~Resolved
    /\ stories # <<>>
    /\ Len(msgs) >= 2

\* C7: when several stories of the list carry the flag's name, the picker
\* resolves to the last of them.
C7_LastWins ==
    (pc = "running" /\ Cardinality(Named) >= 2) =>
        pmodel.currentStory = Just(stories[Max(Named)])

C7_Witness ==
    /\ pc = "running"
    /\ Len(stories) = 2
    /\ stories[1].name = flag
    /\ stories[2].name = flag
    /\ stories[1] # stories[2]
    /\ pmodel.currentStory = Just(stories[2])

\* C9: a flag that names a story of the list gives a resolved state; before any
\* message the view is that story's view of its init model and the command is
\* that story's init command.
C9_Found ==
    (pc = "running" /\ Named # {}) =>
        /\ pmodel.currentStory # Nothing
        /\ pmodel.customModel # Nothing
        /\ \E i \in Named :
            /\ pmodel.currentStory = Just(stories[i])
            /\ msgs = <<>> =>
                /\ pmodel.customModel = Just(stories[i].config.init[1])
                /\ cmd = stories[i].config.init[2]
                /\ storybookView(pmodel) = stories[i].view[stories[i].config.init[1]]
                /\ (html # <<>> => html = stories[i].view[stories[i].config.init[1]])

C9_Witness ==
    /\ pc = "running"
    /\ Named # {}
    /\ msgs = <<>>
    /\ cmd = "cmdLoad"
    /\ html = <<"span", 1>>

\* C10: a statelessStoryOf story run under its own name keeps NoModel, never
\* returns a command, has no subscriptions, and always shows its precomputed tree.
C10_Stateless ==
    (pc = "running" /\ Resolved) =>
        \A n \in StoryNames, v \in Trees :
            pmodel.currentStory = Just(statelessStoryOf(n, v)) =>
                /\ flag = n
                /\ pmodel.customModel = Just(NoModel)
                /\ cmd = CmdNone
                /\ \A k \in 1..Len(cmds) : cmds[k] = CmdNone
                /\ storybookSubs(pmodel) = SubNone
                /\ sub \in {<<>>, SubNone}
                /\ storybookView(pmodel) = v
                /\ html \in {<<>>, v}

C10_Witness ==
    /\ pc = "running"
    /\ pmodel.currentStory = Just(statelessStoryOf("h1", <<"h1", "This is a h1">>))
    /\ Len(msgs) >= 2
    /\ html = <<"h1", "This is a h1">>
    /\ sub = SubNone

-----------------------------------------------------------------------------
(* Properties of loadElmStories, checked under SpecLoad *)

HasEntryPoint == Truthy(ElmMain(elmApp))

\* C6: with an elmApp that lacks Elm.Main, loadElmStories throws, and it
\* registers no entry, for every storyNames.
C6_FailsBeforeRegistering ==
    (~HasEntryPoint /\ lpc # "start") =>
        /\ lpc = "threw"
        /\ entries = <<>>

\* C8: with Elm.Main present, loadElmStories registers one entry per element of
\* storyNames, in order, and every activated entry renders Elm.Main with the
\* entry's own name as flags and the ports argument as ports.
C8_OneEntryPerName ==
    HasEntryPoint =>
        /\ lpc = "done" =>
            /\ Len(entries) = Len(storyNames)
            /\ \A k \in 1..Len(entries) : entries[k].name = storyNames[k]
        /\ rendered # <<>> =>
            /\ rendered.element.src = ElmMain(elmApp)
            /\ rendered.element.flags = storyNames[rendered.entry]
            /\ rendered.element.ports = ports

====
